---- MODULE Spec2Model ----
(***************************************************************************)
(* GDS Budgetarian: a storefront whose pages read and write a hosted       *)
(* document store directly.  The model holds the documents of the store    *)
(* (orders, notifications, users, verificationTokens), the accounts of the *)
(* authentication provider, and the local state of every page instance     *)
(* that takes part in a write: the staff dashboard, the customer's order   *)
(* list, the checkout form, the registration form and the verification     *)
(* page.  An async handler is cut at its awaits: one action per segment.   *)
(***************************************************************************)
EXTENDS Integers, Sequences, FiniteSets, TLC

(***************************************************************************)
(* Bounds of the model.                                                    *)
(***************************************************************************)
MaxUpdates == 2     \* updateOrderStatus calls the dashboards start in all
MaxCart == 1        \* items a cart holds
ItemPrice == 100    \* price of the item the carts hold
MaxTime == 36       \* last hour of the clock
TickStep == 12      \* hours the clock advances by in one step
DstAt == 12         \* hour at which the zone with summer time moves its clocks

(***************************************************************************)
(* Identifiers.                                                            *)
(***************************************************************************)
OrderIds == {"o1", "o2"}
Sessions == {"s1", "s2", "s3", "s4"}     \* browser tabs
NoDoc == [exists |-> FALSE]              \* a document that does not exist
NoUser == [signedIn |-> FALSE]           \* the auth store holds null
NoId == "NoId"

Statuses == {"pending", "processing", "shipped", "delivered", "cancelled"}
Roles == {"user", "admin", "staff"}

VARIABLES
  now,            \* wall clock, in hours
  orders,         \* collection 'orders':        OrderIds -> document or NoDoc
  notifications,  \* collection 'notifications': sequence of documents
  authUser,       \* useAuthStore().user of each session
  dash,           \* StaffDashboard instance of each session
  myOrders,       \* customer Orders page instance of each session
  cart,           \* useCartStore().items of each session (their number)
  co,             \* Checkout instance of each session
  started,        \* number of updateOrderStatus calls started so far
  authAccounts,   \* e-mail addresses the authentication provider has accounts for
  fbUser,         \* auth.currentUser of each session: an e-mail address or ""
  users,          \* collection 'users':              Uids -> document or NoDoc
  verificationTokens, \* collection 'verificationTokens': TokenIds -> document or NoDoc
  issued,         \* every token document ever stored:  TokenIds -> document or NoDoc
  reg,            \* Registration instance of each session
  ap,             \* AuthProvider's auth-state callback of each session
  att,            \* VerifyEmail instance of each opened link
  lg,             \* Login instance of each session
  rm,             \* RoleManagement instance of each session
  an,             \* Analytics instance of each session
  ao              \* admin Orders instance of each session

shop == <<orders, notifications, authUser, dash, myOrders, cart, co, started>>
acct == <<authAccounts, fbUser, users, verificationTokens, issued, reg, ap, att>>
pages == <<lg, rm, an, ao>>
vars == <<now, shop, acct, pages>>

(***************************************************************************)
(* Users the sessions are signed in as.  s1 is a staff member, s2 an       *)
(* administrator, s3 a customer and s4 a visitor who is not signed in.     *)
(***************************************************************************)
StaffUser == [id |-> "u_staff", email |-> "staff@gds", role |-> "staff"]
AdminUser == [id |-> "u_admin", email |-> "admin@gds", role |-> "admin"]
Customer == [id |-> "u1", email |-> "e1", role |-> "user"]
SignedIn ==
  [s \in Sessions |->
     CASE s = "s1" -> StaffUser
       [] s = "s2" -> AdminUser
       [] s = "s3" -> Customer
       [] OTHER -> NoUser]

(***************************************************************************)
(* Routing.                                                                *)
(***************************************************************************)
\* The route table as it would be with the staff route left unwrapped.
RouteGuard_Unwrapped(path) ==
  CASE path = "/admin" -> "adminOnly"
    [] OTHER -> "none"

\* App.tsx: which ProtectedRoute flag wraps the element mounted at a path.
RouteGuard(path) ==
  CASE path = "/admin" -> "adminOnly"
    [] path = "/staff" -> "staffOnly"
    [] path = "/profile" -> "signedIn"
    [] OTHER -> "none"

\* components/ProtectedRoute: renders its children only for a signed-in user
\* whose role has the access the flag asks for.
ProtectedRoute(guard, user) ==
  CASE guard = "none" -> TRUE
    [] guard = "signedIn" -> user # NoUser
    [] guard = "adminOnly" -> user # NoUser /\ user.role = "admin"
    [] guard = "staffOnly" -> user # NoUser /\ user.role \in {"staff", "admin"}

(***************************************************************************)
(* Orders as checkout stores them, and the staff dashboard.                *)
(***************************************************************************)
\* The literal Checkout writes as the first history entry.
InitialHistory == <<[status |-> "pending", updatedBy |-> "system"]>>

\* const shipping = 99
Shipping == 99

\* An order document as Checkout.handleSubmit builds it.
OrderData(userId, form, items) ==
  [userId |-> userId,
   items |-> items,
   paymentMethod |-> form.paymentMethod,
   gcashNumber |-> form.gcashNumber,
   validIdUrl |-> form.validIdUrl,
   subtotal |-> items * ItemPrice,
   shipping |-> Shipping,
   total |-> items * ItemPrice + Shipping,
   status |-> "pending",
   createdAt |-> now,
   statusHistory |-> InitialHistory,
   isReceived |-> FALSE]

IsPrefix(h1, h2) ==
  /\ Len(h1) <= Len(h2)
  /\ \A i \in 1..Len(h1) : h1[i] = h2[i]

NoOrders == [o \in OrderIds |-> NoDoc]

\* selectedOrderForModal is null
NoModal == [open |-> FALSE]

FreshDash ==
  [pc |-> "unmounted", orders |-> NoOrders, calls |-> <<>>, toast |-> "none",
   modal |-> NoModal]

\* An entry signed 'staff' whoever is signed in.
UpdatedBy_Staff(user) == "staff"

\* user?.email || 'staff'
UpdatedBy(user) ==
  IF user = NoUser \/ user.email = "" THEN "staff" ELSE user.email

\* order.status || 'pending', the value the status select shows
ShownStatus(order) == IF order.status = "" THEN "pending" ELSE order.status

\* The fields a dashboard would send if it kept delivered and cancelled final.
UpdateFields_Final(order, newStatus, updatedBy) ==
  [status |-> IF order.status \in {"delivered", "cancelled"}
                THEN order.status ELSE newStatus,
   statusHistory |-> Append(order.statusHistory,
                            [status |-> newStatus, updatedBy |-> updatedBy])]

\* updateOrderStatus: the fields sent to updateDoc, computed from the order as
\* the calling render holds it.
UpdateFields(order, newStatus, updatedBy) ==
  [status |-> newStatus,
   statusHistory |-> Append(order.statusHistory,
                            [status |-> newStatus, updatedBy |-> updatedBy])]

\* An updateDoc that stores the status and drops the history sent with it.
Merge_StatusOnly(doc, fields) ==
  [doc EXCEPT !.status = fields.status]

\* updateDoc(orderRef, fields): the named fields replace the stored ones.
Merge(doc, fields) ==
  [doc EXCEPT !.status = fields.status, !.statusHistory = fields.statusHistory]

\* The /staff route renders the dashboard; its effect starts fetchOrders.
MountStaffDashboard(s) ==
  /\ dash[s].pc = "unmounted"
  /\ ProtectedRoute(RouteGuard("/staff"), authUser[s])
  /\ dash' = [dash EXCEPT ![s].pc = "loading"]
  /\ UNCHANGED <<pages, acct, now, orders, notifications, authUser, myOrders, cart, co, started>>

\* fetchOrders after getDocs resolved: every stored order becomes local state.
FetchOrdersOk(s) ==
  /\ dash[s].pc = "loading"
  /\ dash' = [dash EXCEPT ![s].pc = "ready", ![s].orders = orders]
  /\ UNCHANGED <<pages, acct, now, orders, notifications, authUser, myOrders, cart, co, started>>

\* fetchOrders when getDocs rejects.
FetchOrdersFail(s) ==
  /\ dash[s].pc = "loading"
  /\ dash' = [dash EXCEPT ![s].pc = "ready", ![s].toast = "loadFailed"]
  /\ UNCHANGED <<pages, acct, now, orders, notifications, authUser, myOrders, cart, co, started>>

\* updateOrderStatus up to its await: the order is looked up in the orders of
\* the calling render, and the call keeps that render's orders.
updateOrderStatus(s, orderId, newStatus) ==
  IF dash[s].orders[orderId] = NoDoc
    THEN dash
    ELSE [dash EXCEPT ![s].calls =
            Append(@, [orderId |-> orderId,
                       newStatus |-> newStatus,
                       updatedBy |-> UpdatedBy(authUser[s]),
                       closure |-> dash[s].orders,
                       modal |-> dash[s].modal])]

CanStartCall(s, orderId) ==
  /\ dash[s].pc = "ready"
  /\ dash[s].orders[orderId] # NoDoc
  /\ started < MaxUpdates

\* The status select of an order row: onChange with the option picked.
SelectStatus(s, orderId, newStatus) ==
  /\ CanStartCall(s, orderId)
  /\ newStatus \in Statuses \ {ShownStatus(dash[s].orders[orderId])}
  /\ dash' = updateOrderStatus(s, orderId, newStatus)
  /\ started' = started + 1
  /\ UNCHANGED <<pages, acct, now, orders, notifications, authUser, myOrders, cart, co>>

\* The Update button of an order row: the status shown is sent again.
ClickUpdate(s, orderId) ==
  /\ CanStartCall(s, orderId)
  /\ dash' = [updateOrderStatus(s, orderId, ShownStatus(dash[s].orders[orderId]))
                EXCEPT ![s].toast = "updated"]
  /\ started' = started + 1
  /\ UNCHANGED <<pages, acct, now, orders, notifications, authUser, myOrders, cart, co>>

\* The writes a dashboard has sent wait in one queue: updates and deletions.
IsUpdate(call) == "newStatus" \in DOMAIN call

\* setOrders(orders.map(...)) of a call whose write resolved.
LocalAfterUpdate(call) ==
  LET f == UpdateFields(call.closure[call.orderId], call.newStatus, call.updatedBy)
  IN [call.closure EXCEPT ![call.orderId] = Merge(@, f)]

\* The oldest call's updateDoc resolves: the document takes the fields and
\* the rest of updateOrderStatus runs.
UpdateWriteOk(s) ==
  /\ dash[s].calls # <<>>
  /\ IsUpdate(Head(dash[s].calls))
  /\ LET call == Head(dash[s].calls)
         f == UpdateFields(call.closure[call.orderId], call.newStatus, call.updatedBy)
     IN /\ orders[call.orderId] # NoDoc
        /\ orders' = [orders EXCEPT ![call.orderId] = Merge(@, f)]
        /\ dash' = [dash EXCEPT ![s].calls = Tail(@),
                                ![s].orders = LocalAfterUpdate(call),
                                ![s].toast = "updated"]
  /\ UNCHANGED <<pages, acct, now, notifications, authUser, myOrders, cart, co, started>>

\* The oldest call's updateDoc rejects: the catch block shows a toast.
UpdateWriteFail(s) ==
  /\ dash[s].calls # <<>>
  /\ IsUpdate(Head(dash[s].calls))
  /\ dash' = [dash EXCEPT ![s].calls = Tail(@), ![s].toast = "failed"]
  /\ UNCHANGED <<pages, acct, now, orders, notifications, authUser, myOrders, cart, co, started>>

(***************************************************************************)
(* The customer's "My Orders" page.                                        *)
(***************************************************************************)
FreshMyOrders == [pc |-> "unmounted", orders |-> NoOrders]

\* The page's effect: without a signed-in user it returns before fetching.
MountMyOrders(s) ==
  /\ myOrders[s].pc = "unmounted"
  /\ authUser[s] # NoUser
  /\ myOrders' = [myOrders EXCEPT ![s].pc = "loading"]
  /\ UNCHANGED <<pages, acct, now, orders, notifications, authUser, dash, cart, co, started>>

\* query(orders, where('userId', '==', user.id)) resolved.
MyOrdersFetchOk(s) ==
  /\ myOrders[s].pc = "loading"
  /\ myOrders' = [myOrders EXCEPT
        ![s].pc = "ready",
        ![s].orders = [o \in OrderIds |->
                         IF orders[o] # NoDoc /\ orders[o].userId = authUser[s].id
                           THEN orders[o] ELSE NoDoc]]
  /\ UNCHANGED <<pages, acct, now, orders, notifications, authUser, dash, cart, co, started>>

MyOrdersFetchFail(s) ==
  /\ myOrders[s].pc = "loading"
  /\ myOrders' = [myOrders EXCEPT ![s].pc = "error"]
  /\ UNCHANGED <<pages, acct, now, orders, notifications, authUser, dash, cart, co, started>>

\* The "Receive Order" button is rendered for a delivered order that is not
\* yet received.
CanReceive(s, orderId) ==
  /\ myOrders[s].pc = "ready"
  /\ myOrders[s].orders[orderId] # NoDoc
  /\ myOrders[s].orders[orderId].status = "delivered"
  /\ ~myOrders[s].orders[orderId].isReceived

\* updateDoc(orderRef, { isReceived: true }) resolved, then the local update.
ReceiveOrderOk(s, orderId) ==
  /\ CanReceive(s, orderId)
  /\ orders[orderId] # NoDoc
  /\ orders' = [orders EXCEPT ![orderId].isReceived = TRUE]
  /\ myOrders' = [myOrders EXCEPT ![s].orders[orderId].isReceived = TRUE]
  /\ UNCHANGED <<pages, acct, now, notifications, authUser, dash, cart, co, started>>

\* The write rejected: an alert, and the page reads as after a failed load.
ReceiveOrderFail(s, orderId) ==
  /\ CanReceive(s, orderId)
  /\ myOrders' = [myOrders EXCEPT ![s].pc = "alert"]
  /\ UNCHANGED <<pages, acct, now, orders, notifications, authUser, dash, cart, co, started>>

CloseAlert(s) ==
  /\ myOrders[s].pc = "alert"
  /\ myOrders' = [myOrders EXCEPT ![s].pc = "ready"]
  /\ UNCHANGED <<pages, acct, now, orders, notifications, authUser, dash, cart, co, started>>

(***************************************************************************)
(* Checkout.                                                               *)
(***************************************************************************)
PaymentMethods == {"cod", "gcash"}
\* What the GCash field can hold: nothing, eleven digits with a wrong prefix,
\* a well-formed number.  A number is its sequence of digits.
GcashInputs ==
  {<<>>, <<0, 8, 1, 7, 1, 2, 3, 4, 5, 6, 7>>, <<0, 9, 1, 7, 1, 2, 3, 4, 5, 6, 7>>}
IdUrl == "https://storage/valid-ids/id.png"

\* /^09\d{9}$/
validateGCash(number) ==
  /\ Len(number) = 11
  /\ number[1] = 0
  /\ number[2] = 9
  /\ \A i \in 1..Len(number) : number[i] \in 0..9

\* useState<FormData>(...): the payment part of the initial form
EmptyForm == [paymentMethod |-> "cod", gcashNumber |-> <<>>, validIdUrl |-> ""]

FreshCheckout ==
  [pc |-> "form", form |-> EmptyForm, uploading |-> FALSE,
   orderData |-> NoDoc, docId |-> NoId, toast |-> "none"]

\* The form is rendered only while the auth store holds a user.
FormRendered_Always(s) == co[s].pc = "form"

FormRendered(s) == co[s].pc = "form" /\ authUser[s] # NoUser

\* A validate() that checks the contact fields only.
validate_ContactOnly(form, otherOk) ==
  IF otherOk THEN {} ELSE {"contact"}

\* validate(): the keys of the errors it returns.  otherOk says whether the
\* name, email, phone and address fields pass their checks.
validate(form, otherOk) ==
  (IF otherOk THEN {} ELSE {"contact"})
  \cup (IF form.paymentMethod = "gcash" /\ ~validateGCash(form.gcashNumber)
          THEN {"gcashNumber"} ELSE {})
  \cup (IF form.paymentMethod = "cod" /\ form.validIdUrl = ""
          THEN {"validId"} ELSE {})

\* The submit button's disabled attribute.
SubmitDisabled(s) ==
  \/ co[s].uploading
  \/ co[s].form.paymentMethod = "cod" /\ co[s].form.validIdUrl = ""

\* handleInputChange on one of the payment method radios.
SetPaymentMethod(s, m) ==
  /\ FormRendered(s)
  /\ m # co[s].form.paymentMethod
  /\ co' = [co EXCEPT ![s].form.paymentMethod = m]
  /\ UNCHANGED <<pages, acct, now, orders, notifications, authUser, dash, myOrders, cart, started>>

\* handleInputChange on the GCash number field, shown while GCash is selected.
SetGcashNumber(s, v) ==
  /\ FormRendered(s)
  /\ co[s].form.paymentMethod = "gcash"
  /\ v # co[s].form.gcashNumber
  /\ co' = [co EXCEPT ![s].form.gcashNumber = v]
  /\ UNCHANGED <<pages, acct, now, orders, notifications, authUser, dash, myOrders, cart, started>>

\* handleFileChange up to uploadBytes: a file of a wrong type or size only
\* raises a toast.  The input is shown for COD and disabled while uploading.
ChooseFile(s, fileOk) ==
  /\ FormRendered(s)
  /\ co[s].form.paymentMethod = "cod"
  /\ ~co[s].uploading
  /\ co' = IF fileOk THEN [co EXCEPT ![s].uploading = TRUE]
                     ELSE [co EXCEPT ![s].toast = "badFile"]
  /\ UNCHANGED <<pages, acct, now, orders, notifications, authUser, dash, myOrders, cart, started>>

\* uploadBytes and getDownloadURL resolved.
UploadOk(s) ==
  /\ co[s].uploading
  /\ co' = [co EXCEPT ![s].uploading = FALSE,
                      ![s].form.validIdUrl = IdUrl,
                      ![s].toast = "uploaded"]
  /\ UNCHANGED <<pages, acct, now, orders, notifications, authUser, dash, myOrders, cart, started>>

\* The upload rejected.
UploadFail(s) ==
  /\ co[s].uploading
  /\ co' = [co EXCEPT ![s].uploading = FALSE,
                      ![s].form.validIdUrl = "",
                      ![s].toast = "uploadFailed"]
  /\ UNCHANGED <<pages, acct, now, orders, notifications, authUser, dash, myOrders, cart, started>>

\* A product page puts an item into the cart.
AddToCart(s) ==
  /\ cart[s] < MaxCart
  /\ cart' = [cart EXCEPT ![s] = @ + 1]
  /\ UNCHANGED <<pages, acct, now, orders, notifications, authUser, dash, myOrders, co, started>>

\* useCartStore().clearCart
clearCart(s) == [cart EXCEPT ![s] = 0]

\* handleSubmit up to addDoc: validation, then the order is built from the
\* form, the signed-in user and the cart.
handleSubmit(s, otherOk) ==
  /\ FormRendered(s)
  /\ ~SubmitDisabled(s)
  /\ IF validate(co[s].form, otherOk) # {}
       THEN co' = [co EXCEPT ![s].toast = "fixErrors"]
       ELSE co' = [co EXCEPT
              ![s].pc = "addingOrder",
              ![s].toast = "none",
              ![s].orderData =
                 [OrderData(IF authUser[s] = NoUser THEN "" ELSE authUser[s].id,
                            co[s].form, cart[s])
                    EXCEPT !.validIdUrl =
                      IF co[s].form.paymentMethod = "cod" /\ co[s].form.validIdUrl # ""
                        THEN co[s].form.validIdUrl ELSE @]]
  /\ UNCHANGED <<pages, acct, now, orders, notifications, authUser, dash, myOrders, cart, started>>

\* addDoc(collection(db, 'orders'), orderData) resolved with a new document id.
OrderWriteOk(s, id) ==
  /\ co[s].pc = "addingOrder"
  /\ orders[id] = NoDoc
  /\ orders' = [orders EXCEPT ![id] = co[s].orderData]
  /\ co' = [co EXCEPT ![s].pc = "notifying", ![s].docId = id]
  /\ UNCHANGED <<pages, acct, now, notifications, authUser, dash, myOrders, cart, started>>

\* handleSubmit as it would be with clearCart() moved into the finally block.
OrderWriteFail_ClearsCart(s) ==
  /\ co[s].pc = "addingOrder"
  /\ co' = [co EXCEPT ![s].pc = "form", ![s].toast = "failed", ![s].orderData = NoDoc]
  /\ cart' = clearCart(s)
  /\ UNCHANGED <<pages, acct, now, orders, notifications, authUser, dash, myOrders, started>>

\* addDoc rejected: the catch block of handleSubmit.
OrderWriteFail(s) ==
  /\ co[s].pc = "addingOrder"
  /\ co' = [co EXCEPT ![s].pc = "form", ![s].toast = "failed", ![s].orderData = NoDoc]
  /\ UNCHANGED <<pages, acct, now, orders, notifications, authUser, dash, myOrders, cart, started>>

\* createNewOrderNotification: the document it adds.
NewOrderNotification(orderId, orderData) ==
  [type |-> "new_order", orderId |-> orderId, recipientRole |-> "both",
   read |-> FALSE, paymentMethod |-> orderData.paymentMethod]

\* What follows the await of createNewOrderNotification in handleSubmit.
AfterNotification(s) ==
  /\ cart' = clearCart(s)
  /\ co' = [co EXCEPT ![s].pc = "left", ![s].toast = "success"]

\* The notification's addDoc resolved.
NotifyOk(s) ==
  /\ co[s].pc = "notifying"
  /\ notifications' =
       Append(notifications, NewOrderNotification(co[s].docId, co[s].orderData))
  /\ AfterNotification(s)
  /\ UNCHANGED <<pages, acct, now, orders, authUser, dash, myOrders, started>>

\* createNewOrderNotification as it would be without its try/catch: the
\* rejection reaches the catch block of handleSubmit.
NotifyFail_Throws(s) ==
  /\ co[s].pc = "notifying"
  /\ co' = [co EXCEPT ![s].pc = "form", ![s].toast = "failed"]
  /\ UNCHANGED <<pages, acct, now, orders, notifications, authUser, dash, myOrders, cart, started>>

\* The notification's addDoc rejected: createNewOrderNotification catches
\* the error and returns.
NotifyFail(s) ==
  /\ co[s].pc = "notifying"
  /\ AfterNotification(s)
  /\ UNCHANGED <<pages, acct, now, orders, notifications, authUser, dash, myOrders, started>>

\* The customer opens /checkout again: a new instance of the page.
OpenCheckout(s) ==
  /\ co[s].pc = "left"
  /\ co' = [co EXCEPT ![s] = FreshCheckout]
  /\ UNCHANGED <<pages, acct, now, orders, notifications, authUser, dash, myOrders, cart, started>>

(***************************************************************************)
(* Accounts: the authentication provider, the 'users' collection and the   *)
(* clock.                                                                  *)
(***************************************************************************)
Emails == {"e1", "e2"}                       \* addresses typed into Registration
AllEmails == Emails \cup {StaffUser.email, AdminUser.email}
Uids == {"u1", "u2", StaffUser.id, AdminUser.id}
TokenIds == {"t1", "t2"}
Attempts == {"a1", "a2"}                     \* openings of /verify-email
Username == "Ana"                            \* formData.username
Phone == "+639171234567"                     \* formData.phone

\* user.uid of the account createUserWithEmailAndPassword makes for an address
UidOf(email) ==
  CASE email = "e1" -> "u1"
    [] email = "e2" -> "u2"
    [] email = StaffUser.email -> StaffUser.id
    [] OTHER -> AdminUser.id

\* `${user.uid}_${Date.now()}_${random}`: the id starts with the uid, and an
\* account reaches this line once, so the uid names the token.
TokenOf(uid) ==
  IF uid = "u1" THEN "t1" ELSE "t2"

\* The document Registration writes to users/{uid}.
RegisteredUser(uid, email) ==
  [id |-> uid, email |-> email, name |-> Username, phone |-> Phone,
   role |-> "user", emailVerified |-> FALSE]

\* firebaseUser.displayName || 'User'
DisplayName(account) ==
  IF account.displayName = "" THEN "User" ELSE account.displayName

\* The document AuthProvider writes when users/{uid} does not exist.
ProvidedUser(uid, email, account) ==
  [id |-> uid, email |-> email, name |-> DisplayName(account), role |-> "user"]

\* userData.emailVerified as Login reads it: a missing field is falsy.
EmailVerified(userDoc) ==
  "emailVerified" \in DOMAIN userDoc /\ userDoc.emailVerified

\* An update that stamps the time of the verification and leaves the flag.
MarkVerified_StampOnly(userDoc, verifiedAt) ==
  [verifiedAt |-> verifiedAt] @@ userDoc

\* updateDoc(userDocRef, {emailVerified: true, verifiedAt})
MarkVerified(userDoc, verifiedAt) ==
  [emailVerified |-> TRUE, verifiedAt |-> verifiedAt] @@ userDoc

\* The user object AuthProvider and Login put into the auth store.
StoreUser(uid, email, userData) ==
  [id |-> uid, email |-> email, role |-> userData.role]

(***************************************************************************)
(* Time.  The clock counts hours of universal time.  A browser's Date      *)
(* reads and sets its hour field in the zone of the machine: "manila" has  *)
(* a fixed offset, "newyork" moves its clocks forward at hour DstAt.       *)
(***************************************************************************)
TokenLifetimeHours == 24
Zones == {"manila", "newyork"}

TzOffset(zone, t) ==
  CASE zone = "manila" -> 8
    [] OTHER -> IF t < DstAt THEN 0 - 5 ELSE 0 - 4

\* The local hour count a Date shows for the instant t.
ToLocal(zone, t) == t + TzOffset(zone, t)

\* The instant a Date takes when its local fields are set to L; a local hour
\* the zone skips is read with the offset in force before the change.
FromLocal(zone, L) ==
  LET c == {t \in (L - 12)..(L + 12) : ToLocal(zone, t) = L}
  IN IF c # {} THEN CHOOSE t \in c : \A t2 \in c : t <= t2
     ELSE L - TzOffset(zone, L - 12)

\* expiresAt = new Date(); expiresAt.setHours(expiresAt.getHours() + 24)
ExpiresAt(zone, t) == FromLocal(zone, ToLocal(zone, t) + TokenLifetimeHours)

\* A verification page that takes every stored token as still valid.
IsExpired_Never(t, expiresAt) == FALSE

\* new Date() > expiresAt
IsExpired(t, expiresAt) == t > expiresAt

Tick ==
  /\ now + TickStep <= MaxTime
  /\ now' = now + TickStep
  /\ UNCHANGED <<pages, shop, acct>>

(***************************************************************************)
(* Registration.handleRegister, cut at its awaits, and the auth-state      *)
(* callback of AuthProvider that the sign-in of the new account starts.    *)
(***************************************************************************)
FreshRegistration ==
  [pc |-> "form", error |-> "", email |-> "", uid |-> "", tokenDoc |-> NoDoc]

FreshAuthCallback ==
  [pc |-> "idle", email |-> "", userData |-> NoDoc, error |-> FALSE]

\* The store's client sends the writes of one session in the order they were
\* made, and a read shows the session's own writes that are still on the way.
\* users/{uid} as a getDoc of session s sees it:
VisibleUser(s, uid) ==
  CASE reg[s].pc = "writingUser" /\ reg[s].uid = uid ->
         RegisteredUser(uid, reg[s].email)
    [] ap[s].pc = "creating" /\ UidOf(ap[s].email) = uid -> ap[s].userData
    [] OTHER -> users[uid]

\* The catch block: setError(...), and the form is shown again.
RegistrationError(s, error) ==
  [reg EXCEPT ![s] = [FreshRegistration EXCEPT !.email = reg[s].email,
                                               !.error = error]]

\* Submit: the three validations, then createUserWithEmailAndPassword starts.
handleRegister(s, email, valid) ==
  /\ reg[s].pc = "form"
  /\ reg' = [reg EXCEPT ![s] =
               IF valid
                 THEN [FreshRegistration EXCEPT !.pc = "creatingUser", !.email = email]
                 ELSE [reg[s] EXCEPT !.error = "invalid"]]
  /\ UNCHANGED <<pages, now, shop, authAccounts, fbUser, users, verificationTokens, issued, ap, att>>

\* The account is made and signed in; onAuthStateChanged calls AuthProvider.
CreateUserOk(s) ==
  /\ reg[s].pc = "creatingUser"
  /\ authAccounts[reg[s].email] = NoDoc
  /\ ap[s].pc = "idle"
  /\ authAccounts' = [authAccounts EXCEPT ![reg[s].email] =
                        [uid |-> UidOf(reg[s].email), displayName |-> ""]]
  /\ reg' = [reg EXCEPT ![s].pc = "updatingProfile", ![s].uid = UidOf(reg[s].email)]
  /\ fbUser' = [fbUser EXCEPT ![s] = reg[s].email]
  /\ ap' = [ap EXCEPT ![s] = [FreshAuthCallback EXCEPT !.pc = "reading",
                                                       !.email = reg[s].email]]
  /\ UNCHANGED <<pages, now, shop, users, verificationTokens, issued, att>>

\* auth/email-already-in-use
CreateUserInUse(s) ==
  /\ reg[s].pc = "creatingUser"
  /\ authAccounts[reg[s].email] # NoDoc
  /\ reg' = RegistrationError(s, "email-already-in-use")
  /\ UNCHANGED <<pages, now, shop, authAccounts, fbUser, users, verificationTokens, issued, ap, att>>

\* Any await of handleRegister rejects for another reason.
RegistrationFail(s) ==
  /\ reg[s].pc \in {"creatingUser", "updatingProfile", "writingUser",
                    "writingToken", "signingOut"}
  /\ reg' = RegistrationError(s, "failed")
  /\ UNCHANGED <<pages, now, shop, authAccounts, fbUser, users, verificationTokens, issued, ap, att>>

UpdateProfileOk(s) ==
  /\ reg[s].pc = "updatingProfile"
  /\ authAccounts' = [authAccounts EXCEPT ![reg[s].email].displayName = Username]
  /\ reg' = [reg EXCEPT ![s].pc = "writingUser"]
  /\ UNCHANGED <<pages, now, shop, fbUser, users, verificationTokens, issued, ap, att>>

\* A client whose writes of one document may resolve in either order.
WriteUserOk_Unordered(s, zone) ==
  /\ reg[s].pc = "writingUser"
  /\ users' = [users EXCEPT ![reg[s].uid] = RegisteredUser(reg[s].uid, reg[s].email)]
  /\ reg' = [reg EXCEPT ![s].pc = "writingToken",
                        ![s].tokenDoc = [userId |-> reg[s].uid,
                                         email |-> reg[s].email,
                                         createdAt |-> now,
                                         expiresAt |-> ExpiresAt(zone, now)]]
  /\ UNCHANGED <<pages, now, shop, authAccounts, fbUser, verificationTokens, issued, ap, att>>

\* users/{uid} is stored; the token and its expiry are computed and the write
\* of the token document starts.
WriteUserOk(s, zone) ==
  /\ reg[s].pc = "writingUser"
  /\ ~(ap[s].pc = "creating" /\ UidOf(ap[s].email) = reg[s].uid)
  /\ users' = [users EXCEPT ![reg[s].uid] = RegisteredUser(reg[s].uid, reg[s].email)]
  /\ reg' = [reg EXCEPT ![s].pc = "writingToken",
                        ![s].tokenDoc = [userId |-> reg[s].uid,
                                         email |-> reg[s].email,
                                         createdAt |-> now,
                                         expiresAt |-> ExpiresAt(zone, now)]]
  /\ UNCHANGED <<pages, now, shop, authAccounts, fbUser, verificationTokens, issued, ap, att>>

\* verificationTokens/{token} is stored; emailjs.send starts.
WriteTokenOk(s) ==
  /\ reg[s].pc = "writingToken"
  /\ verificationTokens' =
       [verificationTokens EXCEPT ![TokenOf(reg[s].uid)] = reg[s].tokenDoc]
  /\ issued' = [issued EXCEPT ![TokenOf(reg[s].uid)] = reg[s].tokenDoc]
  /\ reg' = [reg EXCEPT ![s].pc = "sendingEmail"]
  /\ UNCHANGED <<pages, now, shop, authAccounts, fbUser, users, ap, att>>

SendEmailOk(s) ==
  /\ reg[s].pc = "sendingEmail"
  /\ reg' = [reg EXCEPT ![s].pc = "signingOut"]
  /\ UNCHANGED <<pages, now, shop, authAccounts, fbUser, users, verificationTokens, issued, ap, att>>

\* emailjs.send rejects with an error that has a text.
SendEmailFail(s) ==
  /\ reg[s].pc = "sendingEmail"
  /\ reg' = RegistrationError(s, "email-not-sent")
  /\ UNCHANGED <<pages, now, shop, authAccounts, fbUser, users, verificationTokens, issued, ap, att>>

\* signOut resolves: AuthProvider is called with null, then navigate('/login').
SignOutOk(s) ==
  /\ reg[s].pc = "signingOut"
  /\ reg' = [reg EXCEPT ![s].pc = "done"]
  /\ fbUser' = [fbUser EXCEPT ![s] = ""]
  /\ authUser' = [authUser EXCEPT ![s] = NoUser]
  /\ UNCHANGED <<pages, now, orders, notifications, dash, myOrders, cart, co, started,
                 authAccounts, users, verificationTokens, issued, ap, att>>

\* The visitor opens /registration again.
OpenRegistration(s) ==
  /\ reg[s].pc = "done"
  /\ reg' = [reg EXCEPT ![s] = FreshRegistration]
  /\ UNCHANGED <<pages, now, shop, authAccounts, fbUser, users, verificationTokens, issued, ap, att>>

\* AuthProvider: getDoc(users/{uid}) resolves.
AuthReadOk(s) ==
  /\ ap[s].pc = "reading"
  /\ LET uid == UidOf(ap[s].email)
         userDoc == VisibleUser(s, uid)
     IN IF userDoc = NoDoc
          THEN /\ ap' = [ap EXCEPT ![s].pc = "creating",
                                   ![s].userData = ProvidedUser(uid, ap[s].email,
                                                     authAccounts[ap[s].email])]
               /\ UNCHANGED authUser
          ELSE /\ ap' = [ap EXCEPT ![s] = FreshAuthCallback]
               /\ authUser' = [authUser EXCEPT ![s] =
                                 StoreUser(uid, ap[s].email, userDoc)]
  /\ UNCHANGED <<pages, now, orders, notifications, dash, myOrders, cart, co, started,
                 authAccounts, fbUser, users, verificationTokens, issued, reg, att>>

\* AuthProvider: setDoc(userDocRef, userData) resolves.
AuthCreateOk(s) ==
  /\ ap[s].pc = "creating"
  /\ users' = [users EXCEPT ![UidOf(ap[s].email)] = ap[s].userData]
  /\ authUser' = [authUser EXCEPT ![s] =
                    StoreUser(UidOf(ap[s].email), ap[s].email, ap[s].userData)]
  /\ ap' = [ap EXCEPT ![s] = FreshAuthCallback]
  /\ UNCHANGED <<pages, now, orders, notifications, dash, myOrders, cart, co, started,
                 authAccounts, fbUser, verificationTokens, issued, reg, att>>

\* AuthProvider: an await rejects; the catch block calls setUser(null).
AuthFail(s) ==
  /\ ap[s].pc \in {"reading", "creating"}
  /\ authUser' = [authUser EXCEPT ![s] = NoUser]
  /\ ap' = [ap EXCEPT ![s] = [FreshAuthCallback EXCEPT !.error = TRUE]]
  /\ UNCHANGED <<pages, now, orders, notifications, dash, myOrders, cart, co, started,
                 authAccounts, fbUser, users, verificationTokens, issued, reg, att>>

(***************************************************************************)
(* VerifyEmail.verifyEmail, cut at its awaits.                             *)
(***************************************************************************)
LinkTokens == TokenIds \cup {""}             \* the token parameter of a link

FreshAttempt ==
  [pc |-> "closed", token |-> "", status |-> "loading", message |-> "",
   userId |-> "", expiresAt |-> 0, checkedAt |-> 0]

\* getDoc(doc(db, 'verificationTokens', token))
TokenDoc(token) ==
  IF token \in TokenIds THEN verificationTokens[token] ELSE NoDoc

\* verifyEmail has returned: the page shows status and message, the locals
\* of the call are gone.
Shown(a, status, message) ==
  [att EXCEPT ![a] = [FreshAttempt EXCEPT !.pc = "shown", !.token = att[a].token,
                                          !.status = status, !.message = message]]

\* setStatus('error'); setMessage(...)
ShowError(a, message) == Shown(a, "error", message)

\* The link is opened: the effect runs verifyEmail up to its first await.
OpenVerifyLink(a, token) ==
  /\ att[a].pc = "closed"
  /\ a = "a1" \/ att["a1"].pc # "closed"
  /\ att' = IF token = ""
              THEN ShowError(a, "no-token")
              ELSE [att EXCEPT ![a].pc = "readingToken", ![a].token = token]
  /\ UNCHANGED <<pages, now, shop, authAccounts, fbUser, users, verificationTokens, issued, reg, ap>>

\* getDoc resolves: a missing token ends the attempt, an expired one starts
\* its deletion, a valid one starts the update of the user document.
ReadTokenOk(a) ==
  /\ att[a].pc = "readingToken"
  /\ LET tokenDoc == TokenDoc(att[a].token)
     IN att' =
          IF tokenDoc = NoDoc
            THEN ShowError(a, "invalid")
            ELSE [att EXCEPT
                    ![a].userId = tokenDoc.userId,
                    ![a].expiresAt = tokenDoc.expiresAt,
                    ![a].checkedAt = now,
                    ![a].status = IF IsExpired(now, tokenDoc.expiresAt)
                                    THEN "error" ELSE "loading",
                    ![a].message = IF IsExpired(now, tokenDoc.expiresAt)
                                     THEN "expired" ELSE "",
                    ![a].pc = IF IsExpired(now, tokenDoc.expiresAt)
                                THEN "deletingExpired" ELSE "updatingUser"]
  /\ UNCHANGED <<pages, now, shop, authAccounts, fbUser, users, verificationTokens, issued, reg, ap>>

\* Any await of verifyEmail rejects: the catch block.
VerifyFail(a) ==
  /\ att[a].pc \in {"readingToken", "deletingExpired", "updatingUser", "deletingToken"}
  /\ att' = ShowError(a, "failed")
  /\ UNCHANGED <<pages, now, shop, authAccounts, fbUser, users, verificationTokens, issued, reg, ap>>

\* An expiry branch that returns without the clean-up.
DeleteExpiredOk_KeepsToken(a) ==
  /\ att[a].pc = "deletingExpired"
  /\ att' = ShowError(a, "expired")
  /\ UNCHANGED <<pages, now, shop, authAccounts, fbUser, users, verificationTokens, issued, reg, ap>>

\* deleteDoc(tokenDocRef) of the expiry branch resolves.
DeleteExpiredOk(a) ==
  /\ att[a].pc = "deletingExpired"
  /\ verificationTokens' = [verificationTokens EXCEPT ![att[a].token] = NoDoc]
  /\ att' = ShowError(a, "expired")
  /\ UNCHANGED <<pages, now, shop, authAccounts, fbUser, users, issued, reg, ap>>

\* updateDoc(userDocRef, ...) resolves; it rejects when the document is missing.
UpdateUserOk(a) ==
  /\ att[a].pc = "updatingUser"
  /\ users[att[a].userId] # NoDoc
  /\ users' = [users EXCEPT ![att[a].userId] = MarkVerified(@, att[a].checkedAt)]
  /\ att' = [att EXCEPT ![a].pc = "deletingToken"]
  /\ UNCHANGED <<pages, now, shop, authAccounts, fbUser, verificationTokens, issued, reg, ap>>

\* deleteDoc(tokenDocRef) resolves: success.
DeleteTokenOk(a) ==
  /\ att[a].pc = "deletingToken"
  /\ verificationTokens' = [verificationTokens EXCEPT ![att[a].token] = NoDoc]
  /\ att' = Shown(a, "success", "verified")
  /\ UNCHANGED <<pages, now, shop, authAccounts, fbUser, users, issued, reg, ap>>

(***************************************************************************)
(* Login.handleLogin, cut at its awaits.  A sign-in that changes the       *)
(* signed-in account starts AuthProvider's callback; a sign-out calls it   *)
(* with null, which sets the store to null at once.                        *)
(***************************************************************************)
FreshLogin == [pc |-> "form", email |-> "", error |-> ""]

\* Submit: both fields must be filled, then signInWithEmailAndPassword starts.
handleLogin(s, email, filled) ==
  /\ lg[s].pc = "form"
  /\ lg' = [lg EXCEPT ![s] =
              IF filled
                THEN [FreshLogin EXCEPT !.pc = "signingIn", !.email = email]
                ELSE [lg[s] EXCEPT !.error = "missing"]]
  /\ UNCHANGED <<now, shop, acct, rm, an, ao>>

\* The credentials are accepted: auth.currentUser is the account.
SignInOk(s) ==
  /\ lg[s].pc = "signingIn"
  /\ authAccounts[lg[s].email] # NoDoc
  /\ ap[s].pc = "idle"
  /\ fbUser' = [fbUser EXCEPT ![s] = lg[s].email]
  /\ ap' = IF fbUser[s] = lg[s].email
             THEN ap
             ELSE [ap EXCEPT ![s] = [FreshAuthCallback EXCEPT !.pc = "reading",
                                                              !.email = lg[s].email]]
  /\ lg' = [lg EXCEPT ![s].pc = "readingUser"]
  /\ UNCHANGED <<now, shop, authAccounts, users, verificationTokens, issued,
                 reg, att, rm, an, ao>>

\* Any await of handleLogin rejects (wrong password, unknown address, network).
LoginFail(s) ==
  /\ lg[s].pc \in {"signingIn", "readingUser", "signingOutNotFound",
                   "signingOutUnverified"}
  /\ lg' = [lg EXCEPT ![s].pc = "form", ![s].error = "invalid"]
  /\ UNCHANGED <<now, shop, acct, rm, an, ao>>

\* getDoc(users/{uid}) resolves: a missing document and an unverified
\* customer start signOut; anyone else is put into the store and navigated.
LoginReadOk(s) ==
  /\ lg[s].pc = "readingUser"
  /\ LET uid == UidOf(lg[s].email)
         userData == VisibleUser(s, uid)
     IN IF userData = NoDoc
          THEN /\ lg' = [lg EXCEPT ![s].pc = "signingOutNotFound",
                                   ![s].error = "not-found"]
               /\ UNCHANGED authUser
          ELSE IF userData.role = "user" /\ ~EmailVerified(userData)
            THEN /\ lg' = [lg EXCEPT ![s].pc = "signingOutUnverified"]
                 /\ UNCHANGED authUser
            ELSE /\ lg' = [lg EXCEPT ![s].pc = "done"]
                 /\ authUser' = [authUser EXCEPT ![s] =
                                   StoreUser(uid, userData.email, userData)]
  /\ UNCHANGED <<now, orders, notifications, dash, myOrders, cart, co, started,
                 acct, rm, an, ao>>

\* signOut resolves: AuthProvider is called with null; the form shows why.
LoginSignOutOk(s) ==
  /\ lg[s].pc \in {"signingOutNotFound", "signingOutUnverified"}
  /\ fbUser' = [fbUser EXCEPT ![s] = ""]
  /\ authUser' = [authUser EXCEPT ![s] = NoUser]
  /\ lg' = [lg EXCEPT ![s].pc = "form",
                      ![s].error = IF lg[s].pc = "signingOutUnverified"
                                     THEN "not-verified" ELSE "not-found"]
  /\ UNCHANGED <<now, orders, notifications, dash, myOrders, cart, co, started,
                 authAccounts, users, verificationTokens, issued, reg, ap, att,
                 rm, an, ao>>

\* The visitor opens /login again.
OpenLogin(s) ==
  /\ lg[s].pc = "done"
  /\ lg' = [lg EXCEPT ![s] = FreshLogin]
  /\ UNCHANGED <<now, shop, acct, rm, an, ao>>

(***************************************************************************)
(* RoleManagement: the administrator's list of users and its role update.  *)
(***************************************************************************)
NoRoles == [u \in Uids |-> ""]

FreshRoleManagement ==
  [pc |-> "unmounted", roles |-> NoRoles, call |-> NoDoc, toast |-> "none"]

\* data.role || 'user' of every stored user document
LoadedRoles ==
  [u \in Uids |-> IF users[u] = NoDoc THEN "" ELSE users[u].role]

\* The /admin route renders the page; its effect starts fetchUsers.
MountRoleManagement(s) ==
  /\ rm[s].pc = "unmounted"
  /\ ProtectedRoute(RouteGuard("/admin"), authUser[s])
  /\ rm' = [rm EXCEPT ![s].pc = "loading"]
  /\ UNCHANGED <<now, shop, acct, lg, an, ao>>

FetchUsersOk(s) ==
  /\ rm[s].pc = "loading"
  /\ rm' = [rm EXCEPT ![s].pc = "ready", ![s].roles = LoadedRoles]
  /\ UNCHANGED <<now, shop, acct, lg, an, ao>>

FetchUsersFail(s) ==
  /\ rm[s].pc = "loading"
  /\ rm' = [rm EXCEPT ![s].pc = "ready", ![s].toast = "loadFailed"]
  /\ UNCHANGED <<now, shop, acct, lg, an, ao>>

\* handleRoleUpdate up to its await, for a user of the list.
handleRoleUpdate(s, userId, newRole) ==
  /\ rm[s].pc = "ready"
  /\ rm[s].call = NoDoc
  /\ rm[s].roles[userId] # ""
  /\ rm' = [rm EXCEPT ![s].call = [userId |-> userId, newRole |-> newRole,
                                   closure |-> rm[s].roles]]
  /\ UNCHANGED <<now, shop, acct, lg, an, ao>>

\* updateDoc(userRef, {role: newRole}) resolves; setUsers(users.map(...)).
RoleUpdateOk(s) ==
  /\ rm[s].call # NoDoc
  /\ users[rm[s].call.userId] # NoDoc
  /\ users' = [users EXCEPT ![rm[s].call.userId].role = rm[s].call.newRole]
  /\ rm' = [rm EXCEPT ![s].call = NoDoc,
                      ![s].roles = [rm[s].call.closure EXCEPT
                                      ![rm[s].call.userId] = rm[s].call.newRole],
                      ![s].toast = "updated"]
  /\ UNCHANGED <<now, shop, authAccounts, fbUser, verificationTokens, issued,
                 reg, ap, att, lg, an, ao>>

\* updateDoc rejects: the catch block shows a toast and rethrows.
RoleUpdateFail(s) ==
  /\ rm[s].call # NoDoc
  /\ rm' = [rm EXCEPT ![s].call = NoDoc, ![s].toast = "failed"]
  /\ UNCHANGED <<now, shop, acct, lg, an, ao>>

(***************************************************************************)
(* Analytics: fetchAnalytics, cut at its awaits, and the effect that       *)
(* recomputes the two totals when a filter or the loaded orders change.    *)
(***************************************************************************)
HoursInJanuary == 31 * 24

\* date.getMonth() and date.getFullYear() of a creation time; hour 0 is the
\* first hour of January 2024, and the clock stays within its first months.
MonthOf(t) == IF t < HoursInJanuary THEN 0 ELSE 1
YearOf(t) == 2024

\* The value of a filter option, and Number(...) of it.
OptionOf(n) == ToString(n)
Number(option) == CHOOSE n \in 0..2100 : ToString(n) = option

Loaded(list) == {o \in OrderIds : list[o] # NoDoc}

\* The option lists of the two selects: 'all' and what the loaded orders show.
MonthOptions(list) ==
  {"all"} \cup {OptionOf(MonthOf(list[o].createdAt)) : o \in Loaded(list)}
YearOptions(list) ==
  {"all"} \cup {OptionOf(YearOf(list[o].createdAt)) : o \in Loaded(list)}

\* allOrders.filter(...) of the filter effect
Filtered(list, filterMonth, filterYear) ==
  {o \in Loaded(list) :
     /\ filterMonth = "all" \/ MonthOf(list[o].createdAt) = Number(filterMonth)
     /\ filterYear = "all" \/ YearOf(list[o].createdAt) = Number(filterYear)}

\* reduce((sum, o) => sum + o.total, 0) over some of the orders of a list
RECURSIVE SumTotals(_, _)
SumTotals(list, ids) ==
  IF ids = {} THEN 0
  ELSE LET o == CHOOSE x \in ids : TRUE
       IN list[o].total + SumTotals(list, ids \ {o})

FreshAnalytics ==
  [pc |-> "unmounted", filterMonth |-> "all", filterYear |-> "all",
   allOrders |-> NoOrders, fetched |-> NoOrders,
   totalRevenue |-> 0, totalOrders |-> 0]

\* The filter effect on a page state: nothing while no order is loaded.
FilterEffect(page) ==
  IF Loaded(page.allOrders) = {}
    THEN page
    ELSE LET ids == Filtered(page.allOrders, page.filterMonth, page.filterYear)
         IN [page EXCEPT !.totalRevenue = SumTotals(page.allOrders, ids),
                         !.totalOrders = Cardinality(ids)]

\* The /admin route renders the page; its effect starts fetchAnalytics.
MountAnalytics(s) ==
  /\ an[s].pc = "unmounted"
  /\ ProtectedRoute(RouteGuard("/admin"), authUser[s])
  /\ an' = [an EXCEPT ![s].pc = "fetchingOrders"]
  /\ UNCHANGED <<now, shop, acct, lg, rm, ao>>

\* getDocs(orders) resolves: setAllOrders(orders), and the effect runs.
AnalyticsOrdersOk(s) ==
  /\ an[s].pc = "fetchingOrders"
  /\ an' = [an EXCEPT ![s] =
              FilterEffect([an[s] EXCEPT !.pc = "fetchingCustomers",
                                         !.allOrders = orders,
                                         !.fetched = orders])]
  /\ UNCHANGED <<now, shop, acct, lg, rm, ao>>

\* getDocs(users) resolves.
AnalyticsCustomersOk(s) ==
  /\ an[s].pc = "fetchingCustomers"
  /\ an' = [an EXCEPT ![s].pc = "fetchingProducts"]
  /\ UNCHANGED <<now, shop, acct, lg, rm, ao>>

\* getDocs(products) resolves: setStats with the totals of all fetched orders.
AnalyticsProductsOk(s) ==
  /\ an[s].pc = "fetchingProducts"
  /\ an' = [an EXCEPT ![s].pc = "ready",
                      ![s].totalRevenue = SumTotals(an[s].fetched, Loaded(an[s].fetched)),
                      ![s].totalOrders = Cardinality(Loaded(an[s].fetched))]
  /\ UNCHANGED <<now, shop, acct, lg, rm, ao>>

\* One of the three reads rejects: the catch block only logs.
AnalyticsFetchFail(s) ==
  /\ an[s].pc \in {"fetchingOrders", "fetchingCustomers", "fetchingProducts"}
  /\ an' = [an EXCEPT ![s].pc = "ready"]
  /\ UNCHANGED <<now, shop, acct, lg, rm, ao>>

\* The month select: setFilterMonth, and the effect runs.
SetFilterMonth(s, option) ==
  /\ an[s].pc # "unmounted"
  /\ option \in MonthOptions(an[s].allOrders) \ {an[s].filterMonth}
  /\ an' = [an EXCEPT ![s] = FilterEffect([an[s] EXCEPT !.filterMonth = option])]
  /\ UNCHANGED <<now, shop, acct, lg, rm, ao>>

\* The year select: setFilterYear, and the effect runs.
SetFilterYear(s, option) ==
  /\ an[s].pc # "unmounted"
  /\ option \in YearOptions(an[s].allOrders) \ {an[s].filterYear}
  /\ an' = [an EXCEPT ![s] = FilterEffect([an[s] EXCEPT !.filterYear = option])]
  /\ UNCHANGED <<now, shop, acct, lg, rm, ao>>

(***************************************************************************)
(* The staff dashboard's order modal and deleteOrder.                      *)
(***************************************************************************)
\* openOrderModal(order) with an order of the list.
OpenOrderModal(s, orderId) ==
  /\ dash[s].pc = "ready"
  /\ dash[s].modal = NoModal
  /\ dash[s].orders[orderId] # NoDoc
  /\ dash' = [dash EXCEPT ![s].modal =
                [open |-> TRUE, id |-> orderId, order |-> dash[s].orders[orderId]]]
  /\ UNCHANGED <<pages, acct, now, orders, notifications, authUser, myOrders, cart, co, started>>

CloseOrderModal(s) ==
  /\ dash[s].modal # NoModal
  /\ dash' = [dash EXCEPT ![s].modal = NoModal]
  /\ UNCHANGED <<pages, acct, now, orders, notifications, authUser, myOrders, cart, co, started>>

\* The status select of the modal: updateOrderStatus starts, and the modal's
\* copy of the order takes the picked status at once.
ModalSelectStatus(s, newStatus) ==
  /\ dash[s].pc = "ready"
  /\ dash[s].modal # NoModal
  /\ started < MaxUpdates
  /\ newStatus \in Statuses \ {ShownStatus(dash[s].modal.order)}
  /\ dash' = [updateOrderStatus(s, dash[s].modal.id, newStatus)
                EXCEPT ![s].modal.order.status = newStatus]
  /\ started' = started + 1
  /\ UNCHANGED <<pages, acct, now, orders, notifications, authUser, myOrders, cart, co>>

\* deleteOrder up to its await: the order is looked up in the list and the
\* confirmation dialog is answered.  A dashboard has one deletion of an order
\* on the way at a time.
deleteOrder(s, orderId, confirmed) ==
  /\ dash[s].pc = "ready"
  /\ dash[s].orders[orderId] # NoDoc
  /\ \A i \in 1..Len(dash[s].calls) :
       IsUpdate(dash[s].calls[i]) \/ dash[s].calls[i].orderId # orderId
  /\ dash' = IF confirmed
               THEN [dash EXCEPT ![s].calls =
                       Append(@, [orderId |-> orderId,
                                  closure |-> dash[s].orders,
                                  modal |-> dash[s].modal])]
               ELSE dash
  /\ UNCHANGED <<pages, acct, now, orders, notifications, authUser, myOrders, cart, co, started>>

\* deleteDoc resolves: the order leaves the list of the calling render, and
\* the modal closes if that render showed the order in it.
DeleteWriteOk(s) ==
  /\ dash[s].calls # <<>>
  /\ ~IsUpdate(Head(dash[s].calls))
  /\ LET call == Head(dash[s].calls)
     IN /\ orders' = [orders EXCEPT ![call.orderId] = NoDoc]
        /\ dash' = [dash EXCEPT
                      ![s].calls = Tail(@),
                      ![s].orders = [call.closure EXCEPT ![call.orderId] = NoDoc],
                      ![s].modal = IF call.modal # NoModal /\ call.modal.id = call.orderId
                                     THEN NoModal ELSE @,
                      ![s].toast = "deleted"]
  /\ UNCHANGED <<pages, acct, now, notifications, authUser, myOrders, cart, co, started>>

\* deleteDoc rejects: the catch block shows a toast.
DeleteWriteFail(s) ==
  /\ dash[s].calls # <<>>
  /\ ~IsUpdate(Head(dash[s].calls))
  /\ dash' = [dash EXCEPT ![s].calls = Tail(@), ![s].toast = "deleteFailed"]
  /\ UNCHANGED <<pages, acct, now, orders, notifications, authUser, myOrders, cart, co, started>>

(***************************************************************************)
(* The administrator's Orders page and its handleDeleteOrder.              *)
(***************************************************************************)
FreshAdminOrders ==
  [pc |-> "unmounted", orders |-> NoOrders, deleting |-> NoDoc, toast |-> "none"]

MountAdminOrders(s) ==
  /\ ao[s].pc = "unmounted"
  /\ ProtectedRoute(RouteGuard("/admin"), authUser[s])
  /\ ao' = [ao EXCEPT ![s].pc = "loading"]
  /\ UNCHANGED <<now, shop, acct, lg, rm, an>>

AdminFetchOrdersOk(s) ==
  /\ ao[s].pc = "loading"
  /\ ao' = [ao EXCEPT ![s].pc = "ready", ![s].orders = orders]
  /\ UNCHANGED <<now, shop, acct, lg, rm, an>>

AdminFetchOrdersFail(s) ==
  /\ ao[s].pc = "loading"
  /\ ao' = [ao EXCEPT ![s].pc = "ready", ![s].toast = "loadFailed"]
  /\ UNCHANGED <<now, shop, acct, lg, rm, an>>

\* handleDeleteOrder up to its await: the confirmation dialog is answered.
handleDeleteOrder(s, orderId, confirmed) ==
  /\ ao[s].pc = "ready"
  /\ ao[s].deleting = NoDoc
  /\ ao[s].orders[orderId] # NoDoc
  /\ ao' = IF confirmed
             THEN [ao EXCEPT ![s].deleting =
                     [orderId |-> orderId, closure |-> ao[s].orders]]
             ELSE ao
  /\ UNCHANGED <<now, shop, acct, lg, rm, an>>

\* deleteDoc resolves: setOrders(orders.filter(...)).
AdminDeleteOk(s) ==
  /\ ao[s].deleting # NoDoc
  /\ orders' = [orders EXCEPT ![ao[s].deleting.orderId] = NoDoc]
  /\ ao' = [ao EXCEPT ![s].deleting = NoDoc,
                      ![s].orders = [ao[s].deleting.closure EXCEPT
                                       ![ao[s].deleting.orderId] = NoDoc],
                      ![s].toast = "deleted"]
  /\ UNCHANGED <<now, notifications, authUser, dash, myOrders, cart, co, started,
                 acct, lg, rm, an>>

\* A catch block that takes the row off the list.
AdminDeleteFail_DropsRow(s) ==
  /\ ao[s].deleting # NoDoc
  /\ ao' = [ao EXCEPT ![s].deleting = NoDoc, ![s].toast = "deleteFailed",
                      ![s].orders[ao[s].deleting.orderId] = NoDoc]
  /\ UNCHANGED <<now, shop, acct, lg, rm, an>>

\* deleteDoc rejects: the catch block shows a toast.
AdminDeleteFail(s) ==
  /\ ao[s].deleting # NoDoc
  /\ ao' = [ao EXCEPT ![s].deleting = NoDoc, ![s].toast = "deleteFailed"]
  /\ UNCHANGED <<now, shop, acct, lg, rm, an>>

(***************************************************************************)
(* Specifications.                                                         *)
(***************************************************************************)
\* An order the customer of s3 placed with cash on delivery.
PlacedOrder ==
  OrderData(Customer.id,
            [paymentMethod |-> "cod", gcashNumber |-> <<>>, validIdUrl |-> IdUrl], 1)

\* The accounts of the staff member, the administrator and the customer.
Account(email) == [uid |-> UidOf(email), displayName |-> Username]

InitClients ==
  /\ dash = [s \in Sessions |-> FreshDash]
  /\ myOrders = [s \in Sessions |-> FreshMyOrders]
  /\ cart = [s \in Sessions |-> 0]
  /\ co = [s \in Sessions |-> FreshCheckout]
  /\ started = 0
  /\ authAccounts =
       [e \in AllEmails |->
          IF e \in {StaffUser.email, AdminUser.email, Customer.email}
            THEN Account(e) ELSE NoDoc]
  /\ reg = [s \in Sessions |-> FreshRegistration]
  /\ ap = [s \in Sessions |-> FreshAuthCallback]
  /\ att = [a \in Attempts |-> FreshAttempt]
  /\ lg = [s \in Sessions |-> FreshLogin]
  /\ rm = [s \in Sessions |-> FreshRoleManagement]
  /\ an = [s \in Sessions |-> FreshAnalytics]
  /\ ao = [s \in Sessions |-> FreshAdminOrders]

StaffDocs(u) ==
  IF u = StaffUser.id
    THEN [RegisteredUser(u, StaffUser.email) EXCEPT !.role = "staff"]
    ELSE [RegisteredUser(u, AdminUser.email) EXCEPT !.role = "admin"]

\* The customer has verified the address and is signed in.
InitVerified ==
  /\ InitClients
  /\ now = 0
  /\ authUser = SignedIn
  /\ fbUser = [s \in Sessions |->
                 IF SignedIn[s] = NoUser THEN "" ELSE SignedIn[s].email]
  /\ users =
       [u \in Uids |->
          CASE u \in {StaffUser.id, AdminUser.id} -> StaffDocs(u)
            [] u = Customer.id -> MarkVerified(RegisteredUser(u, Customer.email), 0)
            [] OTHER -> NoDoc]
  /\ verificationTokens = [t \in TokenIds |-> NoDoc]
  /\ issued = [t \in TokenIds |-> NoDoc]

\* The staff side: one order has been placed and announced.
Init ==
  /\ InitVerified
  /\ orders = [o \in OrderIds |-> IF o = "o1" THEN PlacedOrder ELSE NoDoc]
  /\ notifications = <<NewOrderNotification("o1", PlacedOrder)>>

StaffNext ==
  \E s \in Sessions :
    \/ MountStaffDashboard(s)
    \/ FetchOrdersOk(s)
    \/ FetchOrdersFail(s)
    \/ \E o \in OrderIds : \E t \in Statuses : SelectStatus(s, o, t)
    \/ \E o \in OrderIds : ClickUpdate(s, o)
    \/ UpdateWriteOk(s)
    \/ UpdateWriteFail(s)

CustomerNext ==
  \E s \in {"s3"} :
    \/ MountMyOrders(s)
    \/ MyOrdersFetchOk(s)
    \/ MyOrdersFetchFail(s)
    \/ \E o \in OrderIds : ReceiveOrderOk(s, o)
    \/ \E o \in OrderIds : ReceiveOrderFail(s, o)
    \/ CloseAlert(s)

Next == StaffNext \/ CustomerNext

Spec == Init /\ [][Next]_vars

\* The shop side: an empty store, and the sessions that check out.
InitCheckout ==
  /\ InitVerified
  /\ orders = NoOrders
  /\ notifications = <<>>

CheckoutSessions == {"s3", "s4"}

CheckoutNext ==
  \E s \in CheckoutSessions :
    \/ \E m \in PaymentMethods : SetPaymentMethod(s, m)
    \/ \E v \in GcashInputs : SetGcashNumber(s, v)
    \/ \E fileOk \in BOOLEAN : ChooseFile(s, fileOk)
    \/ UploadOk(s)
    \/ UploadFail(s)
    \/ AddToCart(s)
    \/ \E otherOk \in BOOLEAN : handleSubmit(s, otherOk)
    \/ \E id \in OrderIds : OrderWriteOk(s, id)
    \/ OrderWriteFail(s)
    \/ NotifyOk(s)
    \/ NotifyFail(s)
    \/ OpenCheckout(s)

SpecCheckout == InitCheckout /\ [][CheckoutNext]_vars

\* The account side: the customer has just registered and holds a link that
\* has not been opened; a visitor registers, links are opened, time passes.
PendingToken ==
  [userId |-> Customer.id, email |-> Customer.email, createdAt |-> 0,
   expiresAt |-> ExpiresAt("manila", 0)]

InitVerify ==
  /\ InitClients
  /\ now = 0
  /\ authUser = [SignedIn EXCEPT !["s3"] = NoUser]
  /\ fbUser = [s \in Sessions |->
                 IF authUser[s] = NoUser THEN "" ELSE authUser[s].email]
  /\ orders = NoOrders
  /\ notifications = <<>>
  /\ users =
       [u \in Uids |->
          CASE u \in {StaffUser.id, AdminUser.id} -> StaffDocs(u)
            [] u = Customer.id -> RegisteredUser(u, Customer.email)
            [] OTHER -> NoDoc]
  /\ verificationTokens =
       [t \in TokenIds |-> IF t = TokenOf(Customer.id) THEN PendingToken ELSE NoDoc]
  /\ issued = verificationTokens

RegSessions == {"s4"}

RegistrationNext ==
  \E s \in RegSessions :
    \/ \E e \in Emails : \E valid \in BOOLEAN : handleRegister(s, e, valid)
    \/ CreateUserOk(s)
    \/ CreateUserInUse(s)
    \/ RegistrationFail(s)
    \/ UpdateProfileOk(s)
    \/ \E z \in Zones : WriteUserOk(s, z)
    \/ WriteTokenOk(s)
    \/ SendEmailOk(s)
    \/ SendEmailFail(s)
    \/ SignOutOk(s)
    \/ OpenRegistration(s)
    \/ AuthReadOk(s)
    \/ AuthCreateOk(s)
    \/ AuthFail(s)

VerifyNext ==
  \E a \in Attempts :
    \/ \E t \in LinkTokens : OpenVerifyLink(a, t)
    \/ ReadTokenOk(a)
    \/ VerifyFail(a)
    \/ DeleteExpiredOk(a)
    \/ UpdateUserOk(a)
    \/ DeleteTokenOk(a)

AccountNext == RegistrationNext \/ VerifyNext \/ Tick

SpecVerify == InitVerify /\ [][AccountNext]_vars

\* Signing in: the account side with one opened link and the login form.
LoginSessions == {"s4"}
LoginEmails == Emails \cup {StaffUser.email}   \* addresses typed into Login

VerifyStep(a) ==
  \/ \E t \in LinkTokens : OpenVerifyLink(a, t)
  \/ ReadTokenOk(a)
  \/ VerifyFail(a)
  \/ DeleteExpiredOk(a)
  \/ UpdateUserOk(a)
  \/ DeleteTokenOk(a)

\* The visitor is on one page at a time: the login form is submitted while no
\* registration of the tab is running, and the other way round.
LoginNext ==
  \E s \in LoginSessions :
    \/ /\ reg[s].pc \in {"form", "done"}
       /\ \E e \in LoginEmails : \E filled \in BOOLEAN : handleLogin(s, e, filled)
    \/ SignInOk(s)
    \/ LoginFail(s)
    \/ LoginReadOk(s)
    \/ LoginSignOutOk(s)
    \/ OpenLogin(s)

\* The visitor registers the address that has no account yet.
SignUpNext ==
  \E s \in RegSessions :
    \/ \E valid \in BOOLEAN : handleRegister(s, "e2", valid)
    \/ CreateUserOk(s)
    \/ RegistrationFail(s)
    \/ UpdateProfileOk(s)
    \/ \E z \in Zones : WriteUserOk(s, z)
    \/ WriteTokenOk(s)
    \/ SendEmailOk(s)
    \/ SendEmailFail(s)
    \/ SignOutOk(s)
    \/ OpenRegistration(s)
    \/ AuthReadOk(s)
    \/ AuthCreateOk(s)
    \/ AuthFail(s)

\* The links of the run have run out.
Later ==
  /\ now < MaxTime
  /\ now' = MaxTime
  /\ UNCHANGED <<pages, shop, acct>>

SignInNext ==
  \/ lg["s4"].pc \in {"form", "done"} /\ SignUpNext
  \/ VerifyStep("a1")
  \/ LoginNext
  \/ Later

SpecLogin == InitVerify /\ [][SignInNext]_vars

\* The administrator's page beside one visitor who registers, opens the link
\* and logs in.
RoleSessions == {"s2"}
Promoted == {"u2"}                           \* users whose role the page changes

RoleNext ==
  \E s \in RoleSessions :
    \/ MountRoleManagement(s)
    \/ FetchUsersOk(s)
    \/ FetchUsersFail(s)
    \/ \E u \in Promoted : \E r \in Roles : handleRoleUpdate(s, u, r)
    \/ RoleUpdateOk(s)
    \/ RoleUpdateFail(s)

VisitorLogin ==
  \E s \in LoginSessions :
    \/ /\ reg[s].pc \in {"form", "done"}
       /\ handleLogin(s, "e2", TRUE)
    \/ SignInOk(s)
    \/ LoginFail(s)
    \/ LoginReadOk(s)
    \/ LoginSignOutOk(s)
    \/ OpenLogin(s)

VisitorVerify ==
  \/ OpenVerifyLink("a1", TokenOf("u2"))
  \/ ReadTokenOk("a1")
  \/ VerifyFail("a1")
  \/ UpdateUserOk("a1")
  \/ DeleteTokenOk("a1")

RolesNext ==
  \/ lg["s4"].pc \in {"form", "done"} /\ SignUpNext
  \/ VisitorVerify
  \/ VisitorLogin
  \/ RoleNext

SpecRoles == InitVerify /\ [][RolesNext]_vars

\* The staff dashboard with its modal and deleteOrder, beside the
\* administrator's Orders page.
DashboardSessions == {"s1"}
AdminSessions == {"s2"}

Picked == {"processing", "cancelled"}        \* the options the staff member picks

DashboardNext ==
  \E s \in DashboardSessions :
    \/ MountStaffDashboard(s)
    \/ FetchOrdersOk(s)
    \/ FetchOrdersFail(s)
    \/ \E o \in OrderIds : \E t \in Picked : SelectStatus(s, o, t)
    \/ UpdateWriteOk(s)
    \/ UpdateWriteFail(s)
    \/ \E o \in OrderIds : OpenOrderModal(s, o)
    \/ CloseOrderModal(s)
    \/ \E t \in Picked : ModalSelectStatus(s, t)
    \/ \E o \in OrderIds : \E confirmed \in BOOLEAN : deleteOrder(s, o, confirmed)
    \/ DeleteWriteOk(s)
    \/ DeleteWriteFail(s)

AdminOrdersNext ==
  \E s \in AdminSessions :
    \/ MountAdminOrders(s)
    \/ AdminFetchOrdersOk(s)
    \/ AdminFetchOrdersFail(s)
    \/ \E o \in OrderIds : \E confirmed \in BOOLEAN : handleDeleteOrder(s, o, confirmed)
    \/ AdminDeleteOk(s)
    \/ AdminDeleteFail(s)

SpecDashboard == Init /\ [][DashboardNext \/ AdminOrdersNext]_vars

GcashOrder ==
  OrderData(Customer.id,
            [paymentMethod |-> "gcash",
             gcashNumber |-> <<0, 9, 1, 7, 1, 2, 3, 4, 5, 6, 7>>,
             validIdUrl |-> ""], 1)

\* Two orders have been placed and announced.
InitDelete ==
  /\ InitVerified
  /\ orders = [o \in OrderIds |-> IF o = "o1" THEN PlacedOrder ELSE GcashOrder]
  /\ notifications = <<NewOrderNotification("o1", PlacedOrder),
                       NewOrderNotification("o2", GcashOrder)>>

\* Deleting: both pages that delete orders.
DeleteNext ==
  \E s \in DashboardSessions :
    \/ MountStaffDashboard(s)
    \/ FetchOrdersOk(s)
    \/ FetchOrdersFail(s)
    \/ \E o \in OrderIds : OpenOrderModal(s, o)
    \/ CloseOrderModal(s)
    \/ \E o \in OrderIds : \E confirmed \in BOOLEAN : deleteOrder(s, o, confirmed)
    \/ DeleteWriteOk(s)
    \/ DeleteWriteFail(s)

SpecDelete == InitDelete /\ [][DeleteNext \/ AdminOrdersNext]_vars

\* Analytics beside the administrator's Orders page: an order of January and
\* an order of February are stored, and it is the first hour of February.
InitAnalytics ==
  /\ InitClients
  /\ now = HoursInJanuary
  /\ authUser = SignedIn
  /\ fbUser = [s \in Sessions |->
                 IF SignedIn[s] = NoUser THEN "" ELSE SignedIn[s].email]
  /\ users =
       [u \in Uids |->
          CASE u \in {StaffUser.id, AdminUser.id} -> StaffDocs(u)
            [] u = Customer.id -> MarkVerified(RegisteredUser(u, Customer.email), 0)
            [] OTHER -> NoDoc]
  /\ verificationTokens = [t \in TokenIds |-> NoDoc]
  /\ issued = [t \in TokenIds |-> NoDoc]
  /\ orders = [o \in OrderIds |->
                 IF o = "o1" THEN [PlacedOrder EXCEPT !.createdAt = 0]
                             ELSE GcashOrder]
  /\ notifications = <<NewOrderNotification("o1", PlacedOrder),
                       NewOrderNotification("o2", GcashOrder)>>

AnalyticsNext ==
  \E s \in AdminSessions :
    \/ MountAnalytics(s)
    \/ AnalyticsOrdersOk(s)
    \/ AnalyticsCustomersOk(s)
    \/ AnalyticsProductsOk(s)
    \/ AnalyticsFetchFail(s)
    \/ \E option \in {"all", OptionOf(0), OptionOf(1)} : SetFilterMonth(s, option)
    \/ \E option \in {"all", OptionOf(2024)} : SetFilterYear(s, option)

SpecAnalytics == InitAnalytics /\ [][AnalyticsNext \/ AdminOrdersNext]_vars



(***************************************************************************)
(* Orders: status history and status updates.                              *)
(***************************************************************************)
StatusChanged(o) ==
  /\ orders[o] # NoDoc
  /\ orders'[o] # NoDoc
  /\ \/ orders'[o].status # orders[o].status
     \/ orders'[o].statusHistory # orders[o].statusHistory

\* C1: an order's stored statusHistory is append-only: every successful
\* update, overlapping or from another session, stores a history that extends
\* the history stored before it.
C1_HistoryAppendOnly ==
  [][\A o \in OrderIds :
       (orders[o] # NoDoc /\ orders'[o] # NoDoc)
         => IsPrefix(orders[o].statusHistory, orders'[o].statusHistory)]_vars

\* C2: every transition is accepted.  Whatever status an order has and
\* whatever target is picked, the select and the Update button start a call with
\* that target, and a call whose write resolves sets the stored status to its
\* target.
C2_AnyTransitionAccepted ==
  [][\A s \in Sessions :
       /\ \A o \in OrderIds : \A t \in Statuses :
            (\/ SelectStatus(s, o, t)
             \/ ClickUpdate(s, o) /\ t = ShownStatus(dash[s].orders[o]))
            => /\ Len(dash'[s].calls) = Len(dash[s].calls) + 1
               /\ dash'[s].calls[Len(dash'[s].calls)].orderId = o
               /\ dash'[s].calls[Len(dash'[s].calls)].newStatus = t
       /\ UpdateWriteOk(s)
            => orders'[Head(dash[s].calls).orderId].status
                 = Head(dash[s].calls).newStatus]_vars

\* A delivered order was set back to pending.
C2_Witness ==
  \E o \in OrderIds :
    /\ orders[o] # NoDoc
    /\ orders[o].status = "pending"
    /\ LET h == orders[o].statusHistory
       IN Len(h) >= 3 /\ h[Len(h) - 1].status = "delivered" /\ h[Len(h)].status = "pending"

C4_OrderAsCreated ==
  /\ \A o \in OrderIds :
       orders[o] # NoDoc
         => /\ orders[o].status = "pending"
            /\ Len(orders[o].statusHistory) = 1
            /\ orders[o].statusHistory[1].status = "pending"
            /\ orders[o].statusHistory[1].updatedBy = "system"
            /\ \E s \in Sessions :
                 authUser[s] # NoUser /\ orders[o].userId = authUser[s].id
  /\ \A s \in Sessions :
       co[s].orderData # NoDoc
         => authUser[s] # NoUser /\ co[s].orderData.userId = authUser[s].id

\* Two orders are stored and a third submission waits for its write.
C4_Witness ==
  /\ \A o \in OrderIds : orders[o] # NoDoc
  /\ \E s \in Sessions : co[s].pc = "addingOrder"

\* C5: a notification is written only by a checkout whose order is stored,
\* and carries that order's id; a checkout whose order write fails writes no
\* notification and leaves the cart as it was.
C5_NotificationAfterOrder ==
  [][/\ notifications' # notifications
          => \E s \in Sessions :
               /\ co[s].pc = "notifying"
               /\ co[s].docId \in OrderIds
               /\ orders[co[s].docId] = co[s].orderData
               /\ Len(notifications') = Len(notifications) + 1
               /\ SubSeq(notifications', 1, Len(notifications)) = notifications
               /\ notifications'[Len(notifications')].type = "new_order"
               /\ notifications'[Len(notifications')].orderId = co[s].docId
     /\ \A s \in Sessions :
          (co[s].pc = "addingOrder" /\ co'[s].pc # "addingOrder" /\ orders' = orders)
            => /\ notifications' = notifications
               /\ cart' = cart
               /\ co'[s].pc = "form"
               /\ co'[s].toast = "failed"]_vars

\* An order write failed with an item in the cart, after an earlier order
\* of the session was announced.
C5_Witness ==
  \E s \in Sessions :
    /\ co[s].pc = "form"
    /\ co[s].toast = "failed"
    /\ cart[s] > 0
    /\ Len(notifications) > 0

\* C6: a checkout whose notification write fails still completes: the order
\* stays stored, the cart is cleared, the success path runs, and no
\* notification refers to the order.
C6_NotificationFailureTolerated ==
  [][\A s \in Sessions :
       (co[s].pc = "notifying" /\ co'[s].pc # "notifying"
          /\ notifications' = notifications)
         => /\ orders' = orders
            /\ orders[co[s].docId] = co[s].orderData
            /\ cart'[s] = 0
            /\ co'[s].pc = "left"
            /\ co'[s].toast = "success"
            /\ \A i \in 1..Len(notifications') :
                 notifications'[i].orderId # co[s].docId]_vars

\* The success path has run for a stored order that no notification names.
C6_Witness ==
  \E s \in Sessions :
    /\ co[s].pc = "left"
    /\ co[s].toast = "success"
    /\ cart[s] = 0
    /\ orders[co[s].docId] # NoDoc
    /\ \A i \in 1..Len(notifications) : notifications[i].orderId # co[s].docId

(***************************************************************************)
(* Verification tokens.                                                    *)
(***************************************************************************)
\* The attempt a found its token and returned without a backend error.
Completed(a) ==
  att[a].pc = "shown" /\ att[a].message \in {"verified", "expired"}

\* Claim C7: once a verification attempt that found its token has returned
\* without a backend error, as verified or as expired, the token document
\* does not exist; and a token document is deleted only by a step of an
\* attempt that presented that token.
C7_TokenDeletedWhenUsed ==
  [][ /\ \A a \in Attempts :
           (att'[a].pc = "shown" /\ att'[a].message \in {"verified", "expired"})
             => verificationTokens'[att'[a].token] = NoDoc
      /\ \A t \in TokenIds :
           (verificationTokens[t] # NoDoc /\ verificationTokens'[t] = NoDoc)
             => \E a \in Attempts :
                  /\ att[a].token = t
                  /\ att[a].pc \in {"deletingExpired", "deletingToken"}
                  /\ att'[a].pc = "shown" ]_vars

\* An attempt was denied as expired and has deleted its token, while the
\* other token, which nobody presented, is still stored.
C7_Witness ==
  \E a \in Attempts :
    /\ Completed(a)
    /\ att[a].message = "expired"
    /\ issued[att[a].token] # NoDoc
    /\ verificationTokens[att[a].token] = NoDoc
    /\ \E t \in TokenIds :
         /\ verificationTokens[t] # NoDoc
         /\ \A b \in Attempts : att[b].token # t

\* Claim C8: emailVerified turns true only in the update of an attempt whose
\* token was stored with that user's id and had not expired when the attempt
\* compared the clock with it; a step of an attempt whose token is missing or
\* expired leaves every user document as it is.
C8_VerifiedOnlyByValidToken ==
  [][ /\ \A u \in Uids :
           (EmailVerified(users'[u]) /\ ~EmailVerified(users[u]))
             => \E a \in Attempts :
                  /\ att[a].pc = "updatingUser"
                  /\ att'[a].pc = "deletingToken"
                  /\ att[a].token \in TokenIds
                  /\ issued[att[a].token] # NoDoc
                  /\ issued[att[a].token].userId = u
                  /\ att[a].checkedAt <= issued[att[a].token].expiresAt
      /\ \A a \in Attempts :
           ( /\ att'[a] # att[a]
             /\ \/ att'[a].pc = "deletingExpired"
                \/ att[a].pc = "deletingExpired"
                \/ att'[a].message \in {"no-token", "invalid"} )
             => users' = users ]_vars

\* A valid token has verified its user, after another attempt was denied.
C8_Witness ==
  \E a \in Attempts :
    /\ att[a].pc = "deletingToken"
    /\ EmailVerified(users[att[a].userId])
    /\ issued[att[a].token].userId = att[a].userId
    /\ \E b \in Attempts : att[b].pc = "shown" /\ att[b].message \in {"invalid", "expired"}

\* Claim C9: every token is stored with expiresAt equal to its creation time
\* plus 24 hours, and an attempt that compares the clock t with a token is
\* accepted when t <= expiresAt and denied as expired when t > expiresAt.
C9_ExpiresAfter24Hours ==
  /\ \A t \in TokenIds :
       issued[t] # NoDoc
         => issued[t].expiresAt = issued[t].createdAt + TokenLifetimeHours
  /\ \A a \in Attempts :
       /\ att[a].pc = "updatingUser" => att[a].checkedAt <= att[a].expiresAt
       /\ att[a].pc = "deletingExpired" => att[a].checkedAt > att[a].expiresAt

\* The token of the address e has expired and its user is not verified.
ExpiredUnverified(e) ==
  \E t \in TokenIds :
    /\ issued[t] # NoDoc
    /\ issued[t].email = e
    /\ now > issued[t].expiresAt
    /\ ~EmailVerified(users[issued[t].userId])

\* Claim C10: a user whose token has expired, and who registers again with
\* the same address, is not turned away as already registered: the
\* registration goes on to store a new token.
C10_RegisterAgainGivesToken ==
  [][ \A s \in Sessions :
        (reg[s].pc = "creatingUser" /\ ExpiredUnverified(reg[s].email))
          => reg'[s].error # "email-already-in-use" ]_vars

(***************************************************************************)
(* Signing in after verification.                                          *)
(***************************************************************************)
\* The page of a link shows that the address of the user u is verified.
VerifiedBy(a, u) ==
  /\ att[a].pc = "shown"
  /\ att[a].status = "success"
  /\ att[a].token \in TokenIds
  /\ issued[att[a].token] # NoDoc
  /\ issued[att[a].token].userId = u

\* Claim C11: once the page of a registered user's link shows success, the
\* user's document says verified; a login with that user's credentials whose
\* read of the document resolves is accepted and puts the user into the auth
\* store; and when the login is done and the auth-state callback it started
\* has returned without an error, the store holds that user.
C11_VerifiedUserLogsIn ==
  [][ /\ \A a \in Attempts : \A u \in Uids :
           VerifiedBy(a, u)' => EmailVerified(users'[u])
      /\ \A s \in LoginSessions :
           /\ ( /\ lg[s].pc = "readingUser"
                /\ lg'[s].pc # "readingUser"
                /\ lg'[s].error # "invalid"
                /\ \E a \in Attempts : VerifiedBy(a, UidOf(lg[s].email)) )
                => /\ lg'[s].pc = "done"
                   /\ authUser'[s] # NoUser
                   /\ authUser'[s].id = UidOf(lg[s].email)
                   /\ authUser'[s].email = lg[s].email
           /\ ( /\ lg'[s].pc = "done"
                /\ fbUser'[s] = lg'[s].email
                /\ ap'[s].pc = "idle"
                /\ ~ap'[s].error
                /\ \E a \in Attempts : \E u \in Uids :
                     u = UidOf(lg'[s].email) /\ VerifiedBy(a, u)' )
                => /\ authUser'[s] # NoUser
                   /\ authUser'[s].id = UidOf(lg'[s].email) ]_vars

\* The address registered in this run was verified by its link and has
\* logged in: the store holds its user and every callback has returned.
C11_Witness ==
  /\ lg["s4"].pc = "done"
  /\ lg["s4"].email = "e2"
  /\ reg["s4"].pc = "done"
  /\ VerifiedBy("a1", "u2")
  /\ ap["s4"].pc = "idle"
  /\ authUser["s4"] # NoUser
  /\ authUser["s4"].id = "u2"

\* Claim C12: when a login attempt of a role-user account whose stored
\* emailVerified is not true has completed, the login form showing the
\* not-verified message and the auth-state callback of the sign-in having
\* returned, the auth store holds no user.
C12_UnverifiedLoginLeavesNoUser ==
  \A s \in LoginSessions :
    ( /\ lg[s].pc = "form"
      /\ lg[s].error = "not-verified"
      /\ ap[s].pc = "idle"
      /\ reg[s].pc = "form" )
      => authUser[s] = NoUser

\* A member of staff who logs in is put into the store without the check.
C12_StaffNotChecked ==
  [][ \A s \in LoginSessions :
        ( /\ lg[s].pc = "readingUser"
          /\ lg'[s].pc # "readingUser"
          /\ lg'[s].error # "invalid"
          /\ lg[s].email = StaffUser.email )
          => /\ lg'[s].pc = "done"
             /\ authUser'[s] = StoreUser(StaffUser.id, StaffUser.email, users[StaffUser.id]) ]_vars

(***************************************************************************)
(* The fields of a user document and the steps that write them.            *)
(***************************************************************************)
\* The documents differ at most in the fields named.
SameExcept(old, new, fields) ==
  /\ DOMAIN old \ fields = DOMAIN new \ fields
  /\ \A f \in DOMAIN old \ fields : old[f] = new[f]

\* The step is the resolved role update of the user u.
IsRoleUpdate(u) ==
  \E s \in Sessions :
    /\ rm[s].call # NoDoc
    /\ rm[s].call.userId = u
    /\ rm'[s].call = NoDoc
    /\ rm'[s].toast = "updated"
    /\ users'[u].role = rm[s].call.newRole

\* The step is the resolved user update of a verification for the user u.
IsVerification(u) ==
  \E a \in Attempts :
    /\ att[a].pc = "updatingUser"
    /\ att'[a].pc = "deletingToken"
    /\ att[a].userId = u

\* The step is a step of Login.handleLogin or of AuthProvider's callback.
IsLoginStep(s) == lg'[s] # lg[s] \/ ap'[s] # ap[s]

\* Registration's setDoc(users/{uid}) resolves.
IsRegistrationWrite(u) ==
  \E s \in RegSessions :
    reg[s].pc = "writingUser" /\ reg'[s].pc = "writingToken" /\ reg[s].uid = u

\* The frame of a step for the user documents that exist before it; with
\* afterSignup, Registration's own write of a document is not looked at.
UserDocFrame(afterSignup) ==
  \A u \in Uids :
    /\ (users[u] = NoDoc /\ users'[u] # NoDoc) => users'[u].role = "user"
    /\ (users[u] # NoDoc /\ ~(afterSignup /\ IsRegistrationWrite(u)))
         => /\ users'[u] # NoDoc
            /\ users'[u].role # users[u].role
                 => IsRoleUpdate(u) /\ SameExcept(users[u], users'[u], {"role"})
            /\ EmailVerified(users'[u]) # EmailVerified(users[u])
                 => IsVerification(u)
            /\ IsVerification(u)
                 => SameExcept(users[u], users'[u], {"emailVerified", "verifiedAt"})
            /\ IsRoleUpdate(u) => SameExcept(users[u], users'[u], {"role"})
            /\ (\E s \in LoginSessions : IsLoginStep(s)) => users'[u] = users[u]

\* Claim C13: a user document is created with role user; once it exists its
\* role changes only in the administrator's role update, which writes role
\* alone, its emailVerified only in a verification, which writes
\* emailVerified and verifiedAt alone, and no step of a login or of the
\* auth-state callback writes it.
C13_UserDocFrame == [][UserDocFrame(FALSE)]_vars

\* The same frame with Registration's own write of the document left out.
C13_FrameAfterSignup == [][UserDocFrame(TRUE)]_vars

(***************************************************************************)
(* Checkout: the payment details of a stored order.                        *)
(***************************************************************************)
\* Eleven digits that start with 0 and 9.
IsGcashNumber(number) ==
  /\ Len(number) = 11
  /\ SubSeq(number, 1, 2) = <<0, 9>>
  /\ \A i \in 3..11 : number[i] \in 0..9

\* The payment details an order must carry.
PaymentDetailsOk(order) ==
  /\ order.paymentMethod = "cod" => order.validIdUrl # ""
  /\ order.paymentMethod = "gcash" => IsGcashNumber(order.gcashNumber)

\* Claim C14: every stored cash-on-delivery order has a validIdUrl that is
\* not empty, every stored GCash order has a gcashNumber of eleven digits
\* that starts with 09, and a submission that fails validation starts no
\* write and stores no order.
C14_PaymentDetailsValidated ==
  [][ /\ \A o \in OrderIds : orders'[o] # NoDoc => PaymentDetailsOk(orders'[o])
      /\ \A s \in Sessions :
           /\ co'[s].orderData # NoDoc => PaymentDetailsOk(co'[s].orderData)
           /\ (co[s].pc = "form" /\ validate(co[s].form, TRUE) # {})
                => /\ co'[s].pc = "form"
                   /\ co'[s].orderData = NoDoc
                   /\ co'[s] # co[s] => orders' = orders ]_vars

\* A cash-on-delivery order and a GCash order are stored, and a submission
\* with a malformed GCash number has been turned away.
C14_Witness ==
  /\ \E o \in OrderIds : orders[o] # NoDoc /\ orders[o].paymentMethod = "cod"
  /\ \E o \in OrderIds : orders[o] # NoDoc /\ orders[o].paymentMethod = "gcash"
  /\ \E s \in Sessions :
       /\ co[s].pc = "form"
       /\ co[s].toast = "fixErrors"
       /\ co[s].form.paymentMethod = "gcash"
       /\ Len(co[s].form.gcashNumber) = 11
       /\ ~IsGcashNumber(co[s].form.gcashNumber)

\* Claim C15: no stored GCash order carries a validIdUrl that is not empty.
C15_GcashOrderHasNoId ==
  \A o \in OrderIds :
    (orders[o] # NoDoc /\ orders[o].paymentMethod = "gcash")
      => orders[o].validIdUrl = ""

(***************************************************************************)
(* The dashboards: failed updates and deletions.                           *)
(***************************************************************************)
\* The step is the rejection of the oldest status update of the session s.
UpdateFails(s) ==
  /\ dash[s].calls # <<>>
  /\ IsUpdate(Head(dash[s].calls))
  /\ dash'[s].calls = Tail(dash[s].calls)
  /\ dash'[s].toast = "failed"

\* Claim C16: when the write of updateOrderStatus fails, the stored orders
\* and the order list of the dashboard are as before, and once no other
\* write of the dashboard is on the way, the modal that was open on the order
\* when the update was requested shows the status and the history it showed
\* then.
C16_FailedUpdateShowsPrevious ==
  [][ \A s \in Sessions :
        UpdateFails(s)
          => LET call == Head(dash[s].calls)
             IN /\ orders' = orders
                /\ dash'[s].orders = dash[s].orders
                /\ ( /\ dash'[s].calls = <<>>
                     /\ call.modal # NoModal
                     /\ dash'[s].modal # NoModal
                     /\ dash'[s].modal.id = call.modal.id )
                     => /\ dash'[s].modal.order.status = call.modal.order.status
                        /\ dash'[s].modal.order.statusHistory
                             = call.modal.order.statusHistory ]_vars

\* The step is a resolved deletion of the order o by one of the two pages.
IsDeletion(o) ==
  \/ \E s \in Sessions :
       /\ dash[s].calls # <<>>
       /\ ~IsUpdate(Head(dash[s].calls))
       /\ Head(dash[s].calls).orderId = o
       /\ dash'[s].calls = Tail(dash[s].calls)
       /\ dash'[s].toast = "deleted"
  \/ \E s \in Sessions :
       /\ ao[s].deleting # NoDoc
       /\ ao[s].deleting.orderId = o
       /\ ao'[s].deleting = NoDoc
       /\ ao'[s].toast = "deleted"

\* Claim C17: a deletion removes the document of its order and no other
\* order; no step of a deletion changes the notifications, so those of a
\* deleted order stay; the list of a page loses a row only in a deletion that
\* was confirmed and whose write resolved, and a deletion whose write fails
\* leaves the stored orders and the list as they were.
C17_DeleteRemovesOnlyTheOrder ==
  [][ /\ notifications' = notifications
      /\ \A o \in OrderIds :
           /\ orders'[o] # orders[o]
                => /\ orders'[o] = NoDoc
                   /\ IsDeletion(o)
                   /\ \A o2 \in OrderIds \ {o} : orders'[o2] = orders[o2]
           /\ IsDeletion(o) => orders'[o] = NoDoc
      /\ \A s \in Sessions :
           /\ (dash[s].pc = "ready" /\ dash'[s].orders # dash[s].orders)
                => \E o \in OrderIds : IsDeletion(o) /\ dash'[s].orders[o] = NoDoc
           /\ (ao[s].pc = "ready" /\ ao'[s].orders # ao[s].orders)
                => \E o \in OrderIds : IsDeletion(o) /\ ao'[s].orders[o] = NoDoc
           /\ ( \/ dash'[s].toast = "deleteFailed" /\ dash'[s] # dash[s]
                \/ ao'[s].toast = "deleteFailed" /\ ao'[s] # ao[s] )
                => orders' = orders ]_vars

\* One order was deleted while the other stays; its notification is still
\* stored, and a deletion on each page has failed.
C17_Witness ==
  /\ orders["o1"] = NoDoc
  /\ orders["o2"] # NoDoc
  /\ \E i \in 1..Len(notifications) : notifications[i].orderId = "o1"
  /\ dash["s1"].toast = "deleteFailed"
  /\ dash["s1"].orders["o2"] # NoDoc
  /\ ao["s2"].toast = "deleteFailed"

(***************************************************************************)
(* Analytics: the two totals and the filters.                              *)
(***************************************************************************)
\* The loaded orders a month and a year option match; 'all' matches every one.
Matching(list, filterMonth, filterYear) ==
  {o \in OrderIds :
     /\ list[o] # NoDoc
     /\ filterMonth # "all" => OptionOf(MonthOf(list[o].createdAt)) = filterMonth
     /\ filterYear # "all" => OptionOf(YearOf(list[o].createdAt)) = filterYear}

\* Claim C18: whenever no fetch is in flight, the Total Orders and the Total
\* Revenue shown are the number and the summed totals of the loaded orders
\* that match the month and the year filter.
C18_TotalsMatchFilters ==
  \A s \in Sessions :
    an[s].pc = "ready"
      => LET ids == Matching(an[s].allOrders, an[s].filterMonth, an[s].filterYear)
         IN /\ an[s].totalOrders = Cardinality(ids)
            /\ an[s].totalRevenue = SumTotals(an[s].allOrders, ids)

(***************************************************************************)
(* The status of an order and its history.                                 *)
(***************************************************************************)
\* Claim C19: the status of every stored order is the status of the last
\* entry of its statusHistory.
C19_StatusIsLastEntry ==
  \A o \in OrderIds :
    orders[o] # NoDoc
      => /\ orders[o].statusHistory # <<>>
         /\ orders[o].status
              = orders[o].statusHistory[Len(orders[o].statusHistory)].status

\* An order has been updated twice and is no longer pending.
C19_Witness ==
  \E o \in OrderIds :
    /\ orders[o] # NoDoc
    /\ Len(orders[o].statusHistory) >= 3
    /\ orders[o].status # "pending"
    /\ orders[o].statusHistory[Len(orders[o].statusHistory) - 1].status
         # orders[o].status

\* Claim C20: an update whose write resolves stores the history its caller
\* held with exactly one entry added, which carries the requested status,
\* also when that is the status the order has, and the e-mail of the acting
\* user, or 'staff' without one; when one session works alone and no update
\* of it landed since the call started, the stored history grows by one.
C20_OneEntryPerUpdate ==
  [][ \A s \in Sessions :
        UpdateWriteOk(s)
          => LET call == Head(dash[s].calls)
                 o == call.orderId
                 held == call.closure[o].statusHistory
                 stored == orders'[o].statusHistory
             IN /\ Len(stored) = Len(held) + 1
                /\ SubSeq(stored, 1, Len(held)) = held
                /\ stored[Len(stored)].status = call.newStatus
                /\ stored[Len(stored)].updatedBy =
                     (IF authUser[s] = NoUser THEN "staff" ELSE authUser[s].email)
                /\ ( /\ \A s2 \in Sessions \ {s} : dash[s2].pc = "unmounted"
                     /\ call.closure = dash[s].orders )
                     => /\ Len(stored) = Len(orders[o].statusHistory) + 1
                        /\ SubSeq(stored, 1, Len(stored) - 1)
                             = orders[o].statusHistory ]_vars

\* One dashboard alone has made two updates of an order, the first of them
\* with the status the order had.
C20_Witness ==
  \E o \in OrderIds :
    /\ orders[o] # NoDoc
    /\ \E s \in Sessions :
         /\ dash[s].pc = "ready"
         /\ \A s2 \in Sessions \ {s} : dash[s2].pc = "unmounted"
    /\ Len(orders[o].statusHistory) = 3
    /\ orders[o].statusHistory[2].status = orders[o].statusHistory[1].status
    /\ orders[o].statusHistory[2].updatedBy = StaffUser.email
    /\ orders[o].statusHistory[3].status # "pending"

(***************************************************************************)
(* Verification tokens: one use.                                           *)
(***************************************************************************)
\* The page of the attempt a reports success for the token it presented.
Succeeded(a) ==
  att[a].pc = "shown" /\ att[a].status = "success"

\* Claim C21: a verification token is used once: of two attempts that
\* present the same token, one after the other or overlapping, at most one
\* reports success.
C21_TokenSingleUse ==
  \A a \in Attempts : \A b \in Attempts \ {a} :
    (att[a].token = att[b].token /\ att[a].token \in TokenIds)
      => ~(Succeeded(a) /\ Succeeded(b))

\* An attempt that reads its token after another attempt with the same token
\* has reported success is denied as invalid and leaves the users as they are.
C21_LaterAttemptDenied ==
  [][ \A a \in Attempts : \A b \in Attempts \ {a} :
        ( /\ Succeeded(a)
          /\ att[b].token = att[a].token
          /\ att[b].pc = "readingToken"
          /\ att'[b].pc # "readingToken"
          /\ att'[b].message # "failed" )
          => /\ att'[b].pc = "shown"
             /\ att'[b].status = "error"
             /\ att'[b].message = "invalid"
             /\ users' = users ]_vars

(***************************************************************************)
(* Registration and the auth-state callback of the same sign-up.           *)
(***************************************************************************)
\* Registration's write of users/{uid} has resolved and no later await of
\* handleRegister has rejected.
RegistrationDone(s) ==
  reg[s].pc \in {"writingToken", "sendingEmail", "signingOut", "done"}

\* Claim C22: once a registration has stored its user document, and as long
\* as it does not fail, the stored document has the entered name and phone and
\* role user, and emailVerified is false until a verification has stamped the
\* document, whichever of the registration's write and the write of the
\* auth-state callback of the sign-up was sent first.
C22_RegisteredDocumentStored ==
  \A s \in Sessions :
    RegistrationDone(s)
      => LET d == users[reg[s].uid]
         IN /\ d # NoDoc
            /\ {"name", "phone", "role", "emailVerified"} \subseteq DOMAIN d
            /\ d.name = Username
            /\ d.phone = Phone
            /\ d.role = "user"
            /\ "verifiedAt" \notin DOMAIN d => d.emailVerified = FALSE

\* A registration has completed and signed out, the callback of its sign-up
\* has returned, and the link has not been used.
C22_Witness ==
  /\ reg["s4"].pc = "done"
  /\ reg["s4"].uid = "u2"
  /\ ap["s4"].pc = "idle"
  /\ ~ap["s4"].error
  /\ users["u2"] # NoDoc
  /\ "verifiedAt" \notin DOMAIN users["u2"]
  /\ verificationTokens["t2"] # NoDoc

====
